---- MODULE Spec2Model ----
(***************************************************************************)
(* netgen: configuration normalisation and conditional emission.           *)
(*                                                                         *)
(* One invocation of a subcommand (tcp-echo, tcp-worker, http-axum) reads  *)
(* a YAML document, converts it into a template context, selects the       *)
(* output directory and emits the project files one after the other.       *)
(* Option<T> is modelled as a sequence of length 0 (None) or 1 (Some),     *)
(* Result<T> as a record [ok, val].                                        *)
(***************************************************************************)
EXTENDS Integers, Sequences, FiniteSets, TLC

----------------------------------------------------------------------------
(* Bounds of the model *)

\* usize values tried for lengths and sizes: 0..MaxSize
MaxSize == 2
\* length-prefix widths tried: 0..MaxLenBytes
MaxLenBytes == 4
\* longest route list of an http document
MaxRoutes == 2
\* invocations made one after the other on the same disk
MaxRuns == 2

----------------------------------------------------------------------------
(* Option and Result *)

None == << >>
Some(x) == << x >>
IsSome(o) == Len(o) = 1
Unwrap(o) == o[1]
Opt(S) == {None} \cup {Some(x) : x \in S}

Ok(v) == [ok |-> TRUE, val |-> v]
Err(e) == [ok |-> FALSE, val |-> e]

\* Option::or
OptionOr(a, b) == IF IsSome(a) THEN a ELSE b
\* Option::unwrap_or_else
UnwrapOrElse(o, d) == IF IsSome(o) THEN Unwrap(o) ELSE d

----------------------------------------------------------------------------
(* read_mode.rs *)

USize == 0 .. MaxSize
Bytes == {0, 10, 255}
LenBytesValues == 0 .. MaxLenBytes

\* enum YamlReadMode, tagged by "type"
YamlReadMode ==
         [type : {"lines"}, max_line_len : Opt(USize)]
    \cup [type : {"fixed_size"}, frame_size : USize]
    \cup [type : {"delimited"}, delim : Bytes, max_len : Opt(USize)]
    \cup [type : {"length_prefixed"}, len_bytes : LenBytesValues,
          big_endian : BOOLEAN, max_len : Opt(USize)]

\* ReadModeTemplateCtx::default()
ReadModeTemplateCtx_default ==
    [max_line_len |-> None,
     frame_size |-> None,
     delim_byte |-> None,
     delim_max_len |-> None,
     lp_len_bytes |-> None,
     lp_big_endian |-> None,
     lp_max_len |-> None,
     lp_parse_len_code |-> "",
     is_lines |-> FALSE,
     is_fixed_size |-> FALSE,
     is_delimited |-> FALSE,
     is_length_prefixed |-> FALSE]

\* #[derive(Serialize)]: what the renderer receives for a field; an Option
\* that is None becomes null, every other value is passed as it is
JsonNull == [json |-> "null"]
JsonValue(v) == [json |-> "value", v |-> v]
JsonOption(o) == IF IsSome(o) THEN JsonValue(Unwrap(o)) ELSE JsonNull

Serialize(rm) ==
    [max_line_len |-> JsonOption(rm.max_line_len),
     frame_size |-> JsonOption(rm.frame_size),
     delim_byte |-> JsonOption(rm.delim_byte),
     delim_max_len |-> JsonOption(rm.delim_max_len),
     lp_len_bytes |-> JsonOption(rm.lp_len_bytes),
     lp_big_endian |-> JsonOption(rm.lp_big_endian),
     lp_max_len |-> JsonOption(rm.lp_max_len),
     lp_parse_len_code |-> JsonValue(rm.lp_parse_len_code),
     is_lines |-> JsonValue(rm.is_lines),
     is_fixed_size |-> JsonValue(rm.is_fixed_size),
     is_delimited |-> JsonValue(rm.is_delimited),
     is_length_prefixed |-> JsonValue(rm.is_length_prefixed)]

PanicLenBytes == "len_bytes must be 1, 2 or 4"

Snippet1 == "let frame_len: usize = len_buf[0] as usize;"
Snippet2BE == "let frame_len: usize = u16::from_be_bytes([len_buf[0], len_buf[1]]) as usize;"
Snippet2LE == "let frame_len: usize = u16::from_le_bytes([len_buf[0], len_buf[1]]) as usize;"
Snippet4BE == "let frame_len: usize = u32::from_be_bytes([len_buf[0], len_buf[1], len_buf[2], len_buf[3]]) as usize;"
Snippet4LE == "let frame_len: usize = u32::from_le_bytes([len_buf[0], len_buf[1], len_buf[2], len_buf[3]]) as usize;"

\* the Rust expression each snippet holds: the integer type, the byte order
\* and the indices of len_buf it reads
SnippetExpr(code) ==
    CASE code = Snippet1 -> [ty |-> "u8", order |-> "none", idx |-> << 0 >>]
      [] code = Snippet2BE -> [ty |-> "u16", order |-> "be", idx |-> << 0, 1 >>]
      [] code = Snippet2LE -> [ty |-> "u16", order |-> "le", idx |-> << 0, 1 >>]
      [] code = Snippet4BE -> [ty |-> "u32", order |-> "be", idx |-> << 0, 1, 2, 3 >>]
      [] code = Snippet4LE -> [ty |-> "u32", order |-> "le", idx |-> << 0, 1, 2, 3 >>]

\* the value the snippet computes from len_buf (len_buf[0] is len_buf[1] here)
RECURSIVE Weighted(_, _, _)
Weighted(len_buf, idx, weights) ==
    IF idx = << >> THEN 0
    ELSE len_buf[Head(idx) + 1] * (256 ^ Head(weights))
            + Weighted(len_buf, Tail(idx), Tail(weights))

Decode(code, len_buf) ==
    LET e == SnippetExpr(code)
        n == Len(e.idx)
    IN IF e.order = "le"
       THEN Weighted(len_buf, e.idx, [i \in 1 .. n |-> i - 1])
       ELSE Weighted(len_buf, e.idx, [i \in 1 .. n |-> n - i])

\* the 4-byte arms exchanged
lp_parse_len_snippet_swapped(len_bytes, big_endian) ==
    CASE len_bytes = 1 -> Ok(Snippet1)
      [] len_bytes = 2 /\ big_endian -> Ok(Snippet2BE)
      [] len_bytes = 2 /\ ~big_endian -> Ok(Snippet2LE)
      [] len_bytes = 4 /\ big_endian -> Ok(Snippet4LE)
      [] len_bytes = 4 /\ ~big_endian -> Ok(Snippet4BE)
      [] OTHER -> Err(PanicLenBytes)

\* a fallback arm in place of the panic
lp_parse_len_snippet_default(len_bytes, big_endian) ==
    CASE len_bytes = 1 -> Ok(Snippet1)
      [] len_bytes = 2 /\ big_endian -> Ok(Snippet2BE)
      [] len_bytes = 2 /\ ~big_endian -> Ok(Snippet2LE)
      [] big_endian -> Ok(Snippet4BE)
      [] OTHER -> Ok(Snippet4LE)

\* fn lp_parse_len_snippet: the snippet, or a panic
lp_parse_len_snippet(len_bytes, big_endian) ==
    CASE len_bytes = 1 -> Ok(Snippet1)
      [] len_bytes = 2 /\ big_endian -> Ok(Snippet2BE)
      [] len_bytes = 2 /\ ~big_endian -> Ok(Snippet2LE)
      [] len_bytes = 4 /\ big_endian -> Ok(Snippet4BE)
      [] len_bytes = 4 /\ ~big_endian -> Ok(Snippet4LE)
      [] OTHER -> Err(PanicLenBytes)

\* the delimited arm stores max_len in the field of the lines mode
ReadModeTemplateCtx_from_wrong_field(mode) ==
    LET ctx == ReadModeTemplateCtx_default IN
    CASE mode.type = "lines" ->
            Ok([ctx EXCEPT !.is_lines = TRUE,
                           !.max_line_len = mode.max_line_len])
      [] mode.type = "fixed_size" ->
            Ok([ctx EXCEPT !.is_fixed_size = TRUE,
                           !.frame_size = Some(mode.frame_size)])
      [] mode.type = "delimited" ->
            Ok([ctx EXCEPT !.is_delimited = TRUE,
                           !.delim_byte = Some(mode.delim),
                           !.max_line_len = mode.max_len])
      [] mode.type = "length_prefixed" ->
            LET code == lp_parse_len_snippet(mode.len_bytes, mode.big_endian) IN
            IF code.ok
            THEN Ok([ctx EXCEPT !.is_length_prefixed = TRUE,
                                !.lp_len_bytes = Some(mode.len_bytes),
                                !.lp_big_endian = Some(mode.big_endian),
                                !.lp_max_len = mode.max_len,
                                !.lp_parse_len_code = code.val])
            ELSE code

\* impl From<YamlReadMode> for ReadModeTemplateCtx; the panic of
\* lp_parse_len_snippet unwinds through it
ReadModeTemplateCtx_from(mode) ==
    LET ctx == ReadModeTemplateCtx_default IN
    CASE mode.type = "lines" ->
            Ok([ctx EXCEPT !.is_lines = TRUE,
                           !.max_line_len = mode.max_line_len])
      [] mode.type = "fixed_size" ->
            Ok([ctx EXCEPT !.is_fixed_size = TRUE,
                           !.frame_size = Some(mode.frame_size)])
      [] mode.type = "delimited" ->
            Ok([ctx EXCEPT !.is_delimited = TRUE,
                           !.delim_byte = Some(mode.delim),
                           !.delim_max_len = mode.max_len])
      [] mode.type = "length_prefixed" ->
            LET code == lp_parse_len_snippet(mode.len_bytes, mode.big_endian) IN
            IF code.ok
            THEN Ok([ctx EXCEPT !.is_length_prefixed = TRUE,
                                !.lp_len_bytes = Some(mode.len_bytes),
                                !.lp_big_endian = Some(mode.big_endian),
                                !.lp_max_len = mode.max_len,
                                !.lp_parse_len_code = code.val])
            ELSE code

----------------------------------------------------------------------------
(* util.rs *)

\* the two overrides in the wrong order
resolve_out_dir_cfg_first(cli_out_dir, cfg_out_dir, default_name) ==
    UnwrapOrElse(OptionOr(cfg_out_dir, cli_out_dir), default_name)

\* fn resolve_out_dir
resolve_out_dir(cli_out_dir, cfg_out_dir, default_name) ==
    UnwrapOrElse(OptionOr(cli_out_dir, cfg_out_dir), default_name)

\* fn read_yaml<T>: the file is None when it cannot be read; a document is
\* rejected when a required field (project_name) is missing or when port does
\* not fit u16; a database block without "kind" gets default_db_kind
U16 == 0 .. 65535

\* fn default_db_kind
default_db_kind == "postgres"

DeserializeDatabase(db) ==
    IF IsSome(db)
    THEN Some([Unwrap(db) EXCEPT !.kind = UnwrapOrElse(Unwrap(db).kind, default_db_kind)])
    ELSE None

Deserialize(doc) ==
    LET named == [doc EXCEPT !.project_name = Unwrap(doc.project_name)] IN
    IF "database" \in DOMAIN doc
    THEN [named EXCEPT !.database = DeserializeDatabase(doc.database)]
    ELSE named

read_yaml(file) ==
    IF ~IsSome(file) THEN Err("io")
    ELSE IF ~IsSome(Unwrap(file).project_name) \/ Unwrap(file).port \notin U16
         THEN Err("yaml")
         ELSE Ok(Deserialize(Unwrap(file)))

----------------------------------------------------------------------------
(* tcp_echo.rs, tcp_worker.rs: context builders *)

\* impl From<TcpEchoYamlConfig> for TcpEchoTemplateCtx
TcpEchoTemplateCtx_from(cfg) ==
    LET read_mode == ReadModeTemplateCtx_from(cfg.read_mode) IN
    IF read_mode.ok
    THEN Ok([project_name |-> cfg.project_name,
             port |-> cfg.port,
             tracing_enabled |-> cfg.tracing,
             read_mode |-> read_mode.val,
             github_actions |-> cfg.github_actions])
    ELSE read_mode

\* --max-line-len is not carried into the context
TcpEchoTemplateCtx_from_cli_no_limit(cli) ==
    LET read_mode == [ReadModeTemplateCtx_default EXCEPT !.is_lines = TRUE] IN
    Ok([project_name |-> cli.name,
        port |-> cli.port,
        tracing_enabled |-> cli.tracing,
        read_mode |-> read_mode,
        github_actions |-> cli.github_actions])

\* impl From<&EchoCmd> for TcpEchoTemplateCtx
TcpEchoTemplateCtx_from_cli(cli) ==
    LET read_mode == [ReadModeTemplateCtx_default EXCEPT
                         !.is_lines = TRUE,
                         !.max_line_len = cli.max_line_len] IN
    Ok([project_name |-> cli.name,
        port |-> cli.port,
        tracing_enabled |-> cli.tracing,
        read_mode |-> read_mode,
        github_actions |-> cli.github_actions])

\* impl From<TcpWorkerYamlConfig> for TcpWorkerTemplateCtx
TcpWorkerTemplateCtx_from(cfg) ==
    LET read_mode == ReadModeTemplateCtx_from(cfg.read_mode) IN
    IF read_mode.ok
    THEN Ok([project_name |-> cfg.project_name,
             port |-> cfg.port,
             tracing_enabled |-> cfg.tracing,
             workers |-> cfg.workers,
             event_buffer |-> cfg.event_buffer,
             read_mode |-> read_mode.val,
             github_actions |-> cfg.github_actions])
    ELSE read_mode

----------------------------------------------------------------------------
(* http_axum.rs: context builder *)

HttpMethod == {"GET", "POST", "PUT", "DELETE"}

\* the match on r.method
method_fn(method) ==
    CASE method = "GET" -> "get"
      [] method = "POST" -> "post"
      [] method = "PUT" -> "put"
      [] method = "DELETE" -> "delete"

\* the closure of routes.into_iter().map(..)
RouteTemplate(r) ==
    [path |-> r.path,
     method_fn |-> method_fn(r.method),
     handler_name |-> r.handler,
     response |-> r.response]

\* a route whose path was seen before is dropped
RECURSIVE MapRoutes_dedup(_)
MapRoutes_dedup(routes) ==
    IF routes = << >> THEN << >>
    ELSE LET n == Len(routes)
             front == SubSeq(routes, 1, n - 1)
         IN IF \E i \in 1 .. n - 1 : routes[i].path = routes[n].path
            THEN MapRoutes_dedup(front)
            ELSE Append(MapRoutes_dedup(front), RouteTemplate(routes[n]))

\* cfg.routes.into_iter().map(..).collect()
MapRoutes(routes) == [i \in 1 .. Len(routes) |-> RouteTemplate(routes[i])]

\* the block is projected without looking at "enabled"
DatabaseProjection_ungated(database) ==
    IF IsSome(database)
    THEN << Unwrap(database).enabled, Some(Unwrap(database).url_env),
            Unwrap(database).max_connections >>
    ELSE << FALSE, None, None >>

\* the (db_enabled, db_url_env, db_max_connections) triple
DatabaseProjection(database) ==
    IF IsSome(database)
    THEN IF Unwrap(database).enabled
         THEN << TRUE, Some(Unwrap(database).url_env), Unwrap(database).max_connections >>
         ELSE << FALSE, None, None >>
    ELSE << FALSE, None, None >>

\* docker_compose switches docker on as well
InfraProjection_coupled(infra) ==
    IF IsSome(infra)
    THEN << Unwrap(infra).docker \/ Unwrap(infra).docker_compose,
            Unwrap(infra).docker_compose, Unwrap(infra).github_actions >>
    ELSE << FALSE, FALSE, FALSE >>

\* the (docker_enabled, docker_compose_enabled, github_actions_enabled) triple
InfraProjection(infra) ==
    IF IsSome(infra)
    THEN << Unwrap(infra).docker, Unwrap(infra).docker_compose, Unwrap(infra).github_actions >>
    ELSE << FALSE, FALSE, FALSE >>

\* impl From<HttpAxumYamlConfig> for HttpAxumTemplateCtx
HttpAxumTemplateCtx_from(cfg) ==
    LET routes == MapRoutes(cfg.routes)
        db == DatabaseProjection(cfg.database)
        infra == InfraProjection(cfg.infra)
    IN Ok([project_name |-> cfg.project_name,
           port |-> cfg.port,
           tracing_enabled |-> cfg.tracing,
           routes |-> routes,
           db_enabled |-> db[1],
           db_url_env |-> db[2],
           db_max_connections |-> db[3],
           docker_enabled |-> infra[1],
           docker_compose_enabled |-> infra[2],
           github_actions_enabled |-> infra[3]])

----------------------------------------------------------------------------
(* The disk: std::fs::create_dir_all and std::fs::write.  A path is the    *)
(* sequence of its components; a file holds the text written last.         *)

EmptyFn == [x \in {} |-> x]
Put(f, k, v) == [x \in (DOMAIN f) \cup {k} |-> IF x = k THEN v ELSE f[x]]

Parent(path) == SubSeq(path, 1, Len(path) - 1)
Prefixes(path) == {SubSeq(path, 1, n) : n \in 1 .. Len(path)}

EmptyDisk == [dirs |-> {}, files |-> EmptyFn]

\* the directory is emptied before it is created again
create_dir_all_clean(disk, path) ==
    [dirs |-> disk.dirs \cup Prefixes(path),
     files |-> [p \in {q \in DOMAIN disk.files : path \notin Prefixes(q)} |->
                   disk.files[p]]]

\* create_dir_all: every missing ancestor is created, an existing directory
\* is left as it is; it cannot succeed when an ancestor is a regular file
CanCreateDirAll(disk, path) == Prefixes(path) \cap DOMAIN disk.files = {}
create_dir_all(disk, path) == [disk EXCEPT !.dirs = @ \cup Prefixes(path)]

\* the text is added at the end of a file that exists
write_append(disk, path, text) ==
    [disk EXCEPT !.files =
        Put(@, path,
            IF path \in DOMAIN disk.files
            THEN [tpl |-> text.tpl, ctx |-> disk.files[path].ctx \o text.ctx]
            ELSE text)]

\* write: creates or replaces the whole file; the parent directory must
\* exist and the path must not be a directory
CanWrite(disk, path) == Parent(path) \in disk.dirs /\ path \notin disk.dirs
write(disk, path, text) == [disk EXCEPT !.files = Put(@, path, text)]

\* Handlebars::render: the renderer is a function of the template and of
\* the context
RenderText(template, context) == [tpl |-> template, ctx |-> Some(context)]

----------------------------------------------------------------------------
(* The emission functions, as the sequence of fallible calls they make *)

CreateDirAllOp(path) == [op |-> "create_dir_all", path |-> path]
RegisterOp(name, file) == [op |-> "register_template_string", name |-> name, file |-> file]
RenderOp(name) == [op |-> "render", name |-> name]
WriteOp(path) == [op |-> "write", path |-> path]

\* the workflow is written before its directory is created
GithubActionsOps_write_first(out_dir) ==
    << RegisterOp("github_actions", "ci.yml.hbs"),
       RenderOp("github_actions"),
       WriteOp(<< out_dir, ".github", "workflows", "ci.yml" >>),
       CreateDirAllOp(<< out_dir, ".github", "workflows" >>) >>

\* the "GitHub Actions" block shared by the three functions
GithubActionsOps(out_dir) ==
    << RegisterOp("github_actions", "ci.yml.hbs"),
       RenderOp("github_actions"),
       CreateDirAllOp(<< out_dir, ".github", "workflows" >>),
       WriteOp(<< out_dir, ".github", "workflows", "ci.yml" >>) >>

\* the CI workflow is emitted without looking at github_actions
generate_tcp_echo_project_ungated(c, dir) ==
    << CreateDirAllOp(<< dir, "src" >>),
       RegisterOp("cargo_toml", "tcp_echo/Cargo.toml.hbs"),
       RegisterOp("main_rs", "tcp_echo/main.rs.hbs"),
       RenderOp("cargo_toml"),
       WriteOp(<< dir, "Cargo.toml" >>),
       RenderOp("main_rs"),
       WriteOp(<< dir, "src", "main.rs" >>) >>
    \o GithubActionsOps(dir)

\* fn generate_tcp_echo_project
generate_tcp_echo_project(c, dir) ==
    << CreateDirAllOp(<< dir, "src" >>),
       RegisterOp("cargo_toml", "tcp_echo/Cargo.toml.hbs"),
       RegisterOp("main_rs", "tcp_echo/main.rs.hbs"),
       RenderOp("cargo_toml"),
       WriteOp(<< dir, "Cargo.toml" >>),
       RenderOp("main_rs"),
       WriteOp(<< dir, "src", "main.rs" >>) >>
    \o (IF c.github_actions THEN GithubActionsOps(dir) ELSE << >>)

\* both templates are rendered first, then both files are written
generate_tcp_worker_project_batched(c, dir) ==
    << CreateDirAllOp(<< dir, "src" >>),
       RegisterOp("cargo_toml", "tcp_worker/Cargo.toml.hbs"),
       RegisterOp("main_rs", "tcp_worker/main.rs.hbs"),
       RenderOp("cargo_toml"),
       RenderOp("main_rs"),
       WriteOp(<< dir, "Cargo.toml" >>),
       WriteOp(<< dir, "src", "main.rs" >>) >>
    \o (IF c.github_actions THEN GithubActionsOps(dir) ELSE << >>)

\* fn generate_tcp_worker_project
generate_tcp_worker_project(c, dir) ==
    << CreateDirAllOp(<< dir, "src" >>),
       RegisterOp("cargo_toml", "tcp_worker/Cargo.toml.hbs"),
       RegisterOp("main_rs", "tcp_worker/main.rs.hbs"),
       RenderOp("cargo_toml"),
       WriteOp(<< dir, "Cargo.toml" >>),
       RenderOp("main_rs"),
       WriteOp(<< dir, "src", "main.rs" >>) >>
    \o (IF c.github_actions THEN GithubActionsOps(dir) ELSE << >>)

\* the compose file is gated on docker_enabled
generate_http_axum_project_coupled(c, dir) ==
    << CreateDirAllOp(<< dir, "src" >>),
       RegisterOp("cargo_toml", "http_axum/Cargo.toml.hbs"),
       RegisterOp("main_rs", "http_axum/main.rs.hbs"),
       RegisterOp("handlers_rs", "http_axum/handlers.rs.hbs"),
       RenderOp("cargo_toml"),
       WriteOp(<< dir, "Cargo.toml" >>),
       RenderOp("main_rs"),
       WriteOp(<< dir, "src", "main.rs" >>),
       RenderOp("handlers_rs"),
       WriteOp(<< dir, "src", "handlers.rs" >>) >>
    \o (IF c.docker_enabled
        THEN << RegisterOp("dockerfile", "http_axum/Dockerfile.hbs"),
                RenderOp("dockerfile"),
                WriteOp(<< dir, "Dockerfile" >>) >>
        ELSE << >>)
    \o (IF c.docker_enabled
        THEN << RegisterOp("docker_compose", "http_axum/docker-compose.yml.hbs"),
                RenderOp("docker_compose"),
                WriteOp(<< dir, "docker-compose.yml" >>) >>
        ELSE << >>)
    \o (IF c.github_actions_enabled THEN GithubActionsOps(dir) ELSE << >>)

\* fn generate_http_axum_project
generate_http_axum_project(c, dir) ==
    << CreateDirAllOp(<< dir, "src" >>),
       RegisterOp("cargo_toml", "http_axum/Cargo.toml.hbs"),
       RegisterOp("main_rs", "http_axum/main.rs.hbs"),
       RegisterOp("handlers_rs", "http_axum/handlers.rs.hbs"),
       RenderOp("cargo_toml"),
       WriteOp(<< dir, "Cargo.toml" >>),
       RenderOp("main_rs"),
       WriteOp(<< dir, "src", "main.rs" >>),
       RenderOp("handlers_rs"),
       WriteOp(<< dir, "src", "handlers.rs" >>) >>
    \o (IF c.docker_enabled
        THEN << RegisterOp("dockerfile", "http_axum/Dockerfile.hbs"),
                RenderOp("dockerfile"),
                WriteOp(<< dir, "Dockerfile" >>) >>
        ELSE << >>)
    \o (IF c.docker_compose_enabled
        THEN << RegisterOp("docker_compose", "http_axum/docker-compose.yml.hbs"),
                RenderOp("docker_compose"),
                WriteOp(<< dir, "docker-compose.yml" >>) >>
        ELSE << >>)
    \o (IF c.github_actions_enabled THEN GithubActionsOps(dir) ELSE << >>)

----------------------------------------------------------------------------
(* Inputs: the command line and the YAML file it names *)

ProjectNames == {"svc"}
CliOutDirs == {"cli-out"}
CfgOutDirs == {"cfg-out"}
Seqs(S, n) == UNION {[1 .. k -> S] : k \in 0 .. n}

\* struct TcpEchoYamlConfig, as a document: a required key may be missing
TcpEchoDocs(names, ports, flags, modes) ==
    [project_name : names, port : ports, tracing : flags, read_mode : modes,
     out_dir : Opt(CfgOutDirs), github_actions : BOOLEAN]

\* struct TcpWorkerYamlConfig, as a document
TcpWorkerDocs(names, ports, flags, modes) ==
    [project_name : names, port : ports, tracing : flags, workers : {4},
     event_buffer : {1024}, read_mode : modes,
     out_dir : Opt(CfgOutDirs), github_actions : BOOLEAN]

\* struct HttpRouteYaml
HttpRouteYaml(methods) ==
    [path : {"/", "/health"}, method : methods, handler : {"h"}, response : {"ok"}]

\* struct DatabaseYamlConfig, as a document: "kind" may be left out
DatabaseDocs(kinds, conns) ==
    [enabled : BOOLEAN, kind : kinds, url_env : {"DATABASE_URL"},
     max_connections : conns]

\* struct InfraYamlConfig
InfraYamlConfig ==
    [docker : BOOLEAN, docker_compose : BOOLEAN, github_actions : BOOLEAN]

\* struct HttpAxumYamlConfig, as a document
HttpAxumDocs(names, ports, flags, routes, databases) ==
    [project_name : names, port : ports, tracing : flags, routes : routes,
     out_dir : Opt(CfgOutDirs), database : Opt(databases),
     infra : Opt(InfraYamlConfig)]

\* struct EchoCmd with --config: the other options keep their defaults
EchoCmdConfig ==
    [kind : {"tcp_echo"}, config : {Some("echo.yaml")}, name : {"tcp-echo-server"},
     port : {4000}, tracing : {FALSE}, github_actions : {FALSE},
     max_line_len : {None}, out_dir : Opt(CliOutDirs)]

\* struct EchoCmd without --config
EchoCmdDirect(ports, flags) ==
    [kind : {"tcp_echo"}, config : {None}, name : ProjectNames \cup {"tcp-echo-server"},
     port : ports, tracing : flags, github_actions : BOOLEAN,
     max_line_len : Opt(USize), out_dir : Opt(CliOutDirs)]

\* struct WorkerCmd
WorkerCmd == [kind : {"tcp_worker"}, config : {Some("worker.yaml")}, out_dir : Opt(CliOutDirs)]

\* struct HttpAxumCmd
HttpAxumCmd == [kind : {"http_axum"}, config : {Some("http.yaml")}, out_dir : Opt(CliOutDirs)]

Pairs(cmds, files) == [cmd : cmds, file : files]

\* every frame mode and every document shape, for the context builders
BuildInputs ==
         Pairs(EchoCmdConfig,
               Opt(TcpEchoDocs(Opt(ProjectNames), {0, 4000, 65536}, BOOLEAN, YamlReadMode)))
    \cup Pairs(EchoCmdDirect({0, 4000}, BOOLEAN), {None})
    \cup Pairs(WorkerCmd,
               Opt(TcpWorkerDocs(Opt(ProjectNames), {0, 4000, 65536}, BOOLEAN, YamlReadMode)))
    \cup Pairs(HttpAxumCmd,
               Opt(HttpAxumDocs({Some("svc")}, {4000}, {TRUE},
                                Seqs(HttpRouteYaml(HttpMethod), MaxRoutes),
                                DatabaseDocs(Opt({"mysql"}), Opt({10})))
                   \cup HttpAxumDocs(Opt(ProjectNames), {0, 4000, 65536}, BOOLEAN,
                                     {<< >>}, {})))

\* the frame modes and documents tried by whole runs
RunReadModes ==
         [type : {"lines"}, max_line_len : {Some(MaxSize)}]
    \cup [type : {"fixed_size"}, frame_size : {0, MaxSize}]
    \cup [type : {"delimited"}, delim : {10}, max_len : {None}]
    \cup [type : {"length_prefixed"}, len_bytes : LenBytesValues,
          big_endian : {TRUE}, max_len : {None}]

RunInputs ==
         Pairs(EchoCmdConfig,
               Opt(TcpEchoDocs({Some("svc")}, {0, 4000}, {TRUE}, RunReadModes)
                   \cup TcpEchoDocs({None, Some("svc")}, {4000, 65536}, {TRUE},
                                    [type : {"lines"}, max_line_len : {None}])))
    \cup Pairs(EchoCmdDirect({4000}, {FALSE}), {None})
    \cup Pairs(WorkerCmd,
               Opt(TcpWorkerDocs({Some("svc")}, {0, 4000}, {TRUE}, RunReadModes)
                   \cup TcpWorkerDocs({None, Some("svc")}, {4000, 65536}, {TRUE},
                                      [type : {"lines"}, max_line_len : {None}])))
    \cup Pairs(HttpAxumCmd,
               Opt(HttpAxumDocs({Some("svc")}, {4000}, {TRUE},
                                Seqs(HttpRouteYaml({"GET"}), 1),
                                DatabaseDocs({None}, {None}))
                   \cup HttpAxumDocs({None, Some("svc")}, {4000, 65536}, {TRUE},
                                     {<< >>}, {})))

\* the documents tried when a command is repeated: every combination of the
\* gates, with and without an out_dir of the document
RepeatInputs ==
         Pairs({c \in EchoCmdConfig : c.out_dir = None},
               {Some(d) : d \in TcpEchoDocs({Some("svc")}, {4000}, {TRUE},
                                            [type : {"lines"}, max_line_len : {None}])})
    \cup Pairs({c \in WorkerCmd : c.out_dir = None},
               {Some(d) : d \in TcpWorkerDocs({Some("svc")}, {4000}, {TRUE},
                                              [type : {"lines"}, max_line_len : {None}])})
    \cup Pairs({c \in HttpAxumCmd : c.out_dir = None},
               {Some(d) : d \in HttpAxumDocs({Some("svc")}, {4000}, {TRUE}, {<< >>}, {})})

\* what an earlier, unrelated use of the directory "svc" left behind
StaleText == [tpl |-> "stale", ctx |-> None]
StaleDisk ==
    [dirs |-> {<< "svc" >>, << "svc", "src" >>},
     files |-> Put(Put(EmptyFn, << "svc", "Dockerfile" >>, StaleText),
                   << "svc", "src", "main.rs" >>, StaleText)]
InitialDisks == {EmptyDisk, StaleDisk}

----------------------------------------------------------------------------
(* One invocation: main.rs and the three run_from_cli functions *)

VARIABLES
    cmd,        \* the parsed command line (EchoCmd, WorkerCmd or HttpAxumCmd)
    file,       \* the document at cmd.config, None when it cannot be read
    pc,         \* the statement of run_from_cli reached
    cfg,        \* Some(the deserialized *YamlConfig) once read
    ctx,        \* Some(the *TemplateCtx) once built
    out_dir,    \* Some(the resolved output directory)
    step,       \* the next call of generate_*_project
    hbs,        \* the Handlebars registry: template name -> template file
    rendered,   \* Some(the text returned by the last render)
    fs,         \* the disk
    fs0,        \* the disk when the invocation started
    log,        \* the calls of generate_*_project made so far, with outcome
    result,     \* "running", "ok", "panic" or "err:<what failed>"
    runs,       \* the number of invocations started so far
    prev        \* Some(kind, context and directory of the invocation before)

vars ==
    << runs, prev, cmd, file, pc, cfg, ctx, out_dir, step, hbs, rendered, fs, fs0,
       log, result >>

\* the match of main() on the subcommand, down to the From impl it reaches
BuildCtx(kind, c) ==
    CASE kind = "tcp_echo" -> TcpEchoTemplateCtx_from(c)
      [] kind = "tcp_worker" -> TcpWorkerTemplateCtx_from(c)
      [] kind = "http_axum" -> HttpAxumTemplateCtx_from(c)

\* the generate_*_project function each run_from_cli calls
Generate(kind, c, dir) ==
    CASE kind = "tcp_echo" -> generate_tcp_echo_project(c, dir)
      [] kind = "tcp_worker" -> generate_tcp_worker_project(c, dir)
      [] kind = "http_axum" -> generate_http_axum_project(c, dir)

Plan == Generate(cmd.kind, Unwrap(ctx), Unwrap(out_dir))
Op == Plan[step]

Start(inputs, disks) ==
    \E i \in inputs, d \in disks :
        /\ cmd = i.cmd
        /\ file = i.file
        /\ pc = IF IsSome(i.cmd.config) THEN "read_yaml" ELSE "from"
        /\ cfg = None
        /\ ctx = None
        /\ out_dir = None
        /\ step = 0
        /\ hbs = EmptyFn
        /\ rendered = None
        /\ fs = d
        /\ fs0 = d
        /\ log = << >>
        /\ result = "running"
        /\ runs = 1
        /\ prev = None

\* let cfg = read_yaml(config_path)?;
ReadYaml ==
    /\ pc = "read_yaml"
    /\ LET r == read_yaml(file) IN
        IF r.ok
        THEN /\ cfg' = Some(r.val)
             /\ pc' = "from"
             /\ result' = result
        ELSE /\ cfg' = cfg
             /\ pc' = "done"
             /\ result' = IF r.val = "io" THEN "err:io" ELSE "err:yaml"
    /\ UNCHANGED << runs, prev, cmd, file, ctx, out_dir, step, hbs, rendered, fs, fs0, log >>

\* let ctx = cfg.into();
FromConfig ==
    /\ pc = "from"
    /\ IsSome(cmd.config)
    /\ LET r == BuildCtx(cmd.kind, Unwrap(cfg)) IN
        IF r.ok
        THEN /\ ctx' = Some(r.val)
             /\ pc' = "resolve_out_dir"
             /\ result' = result
        ELSE /\ ctx' = ctx
             /\ pc' = "done"
             /\ result' = "panic"
    /\ UNCHANGED << runs, prev, cmd, file, cfg, out_dir, step, hbs, rendered, fs, fs0, log >>

\* let ctx = (&cmd).into();   (tcp-echo without --config)
FromCli ==
    /\ pc = "from"
    /\ ~IsSome(cmd.config)
    /\ ctx' = Some(TcpEchoTemplateCtx_from_cli(cmd).val)
    /\ pc' = "resolve_out_dir"
    /\ UNCHANGED << runs, prev, cmd, file, cfg, out_dir, step, hbs, rendered, fs, fs0, log, result >>

\* let out_dir_str = resolve_out_dir(cmd.out_dir.clone(), cfg_out_dir, &ctx.project_name);
ResolveOutDir ==
    /\ pc = "resolve_out_dir"
    /\ out_dir' = Some(resolve_out_dir(cmd.out_dir,
                                       IF IsSome(cmd.config) THEN Unwrap(cfg).out_dir ELSE None,
                                       Unwrap(ctx).project_name))
    /\ pc' = "generate"
    /\ step' = 1
    /\ UNCHANGED << runs, prev, cmd, file, cfg, ctx, hbs, rendered, fs, fs0, log, result >>

Running == pc = "generate" /\ step <= Len(Plan)
Done(outcome) == Append(log, [call |-> Op, ok |-> outcome])

\* std::fs::create_dir_all(..)?
CreateDirAll ==
    /\ Running
    /\ Op.op = "create_dir_all"
    /\ CanCreateDirAll(fs, Op.path)
    /\ fs' = create_dir_all(fs, Op.path)
    /\ step' = step + 1
    /\ log' = Done(TRUE)
    /\ UNCHANGED << runs, prev, cmd, file, pc, cfg, ctx, out_dir, hbs, rendered, fs0, result >>

\* hbs.register_template_string(..)?
RegisterTemplate ==
    /\ Running
    /\ Op.op = "register_template_string"
    /\ hbs' = Put(hbs, Op.name, Op.file)
    /\ step' = step + 1
    /\ log' = Done(TRUE)
    /\ UNCHANGED << runs, prev, cmd, file, pc, cfg, ctx, out_dir, rendered, fs, fs0, result >>

\* let text = hbs.render(.., ctx)?
Render ==
    /\ Running
    /\ Op.op = "render"
    /\ Op.name \in DOMAIN hbs
    /\ rendered' = Some(RenderText(hbs[Op.name], Unwrap(ctx)))
    /\ step' = step + 1
    /\ log' = Done(TRUE)
    /\ UNCHANGED << runs, prev, cmd, file, pc, cfg, ctx, out_dir, hbs, fs, fs0, result >>

\* std::fs::write(.., text)?
Write ==
    /\ Running
    /\ Op.op = "write"
    /\ IsSome(rendered)
    /\ CanWrite(fs, Op.path)
    /\ fs' = write(fs, Op.path, Unwrap(rendered))
    /\ step' = step + 1
    /\ log' = Done(TRUE)
    /\ UNCHANGED << runs, prev, cmd, file, pc, cfg, ctx, out_dir, hbs, rendered, fs0, result >>

\* the Err of a call is dropped and the function goes on with the next call
Fail_ignored ==
    /\ Running
    /\ step' = step + 1
    /\ log' = Done(FALSE)
    /\ UNCHANGED << runs, prev, cmd, file, pc, cfg, ctx, out_dir, hbs, rendered, fs, fs0, result >>

\* any of the four calls returns Err and `?` returns it from the run
Fail ==
    /\ Running
    /\ pc' = "done"
    /\ result' = "err:" \o Op.op
    /\ log' = Done(FALSE)
    /\ UNCHANGED << runs, prev, cmd, file, cfg, ctx, out_dir, step, hbs, rendered, fs, fs0 >>

\* Ok(()) of generate_*_project, the println! and Ok(()) of run_from_cli
Finish ==
    /\ pc = "generate"
    /\ step = Len(Plan) + 1
    /\ pc' = "done"
    /\ result' = "ok"
    /\ UNCHANGED << runs, prev, cmd, file, cfg, ctx, out_dir, step, hbs, rendered, fs, fs0, log >>

\* the command is run again after a run that reported success: a new
\* process, with nothing kept but the disk
NewRun(inputs) ==
    /\ pc = "done"
    /\ result = "ok"
    /\ runs < MaxRuns
    /\ \E i \in inputs :
        /\ cmd' = i.cmd
        /\ file' = i.file
        /\ pc' = IF IsSome(i.cmd.config) THEN "read_yaml" ELSE "from"
    /\ cfg' = None
    /\ ctx' = None
    /\ out_dir' = None
    /\ step' = 0
    /\ hbs' = EmptyFn
    /\ rendered' = None
    /\ fs' = fs
    /\ fs0' = fs
    /\ log' = << >>
    /\ result' = "running"
    /\ runs' = runs + 1
    /\ prev' = Some([kind |-> cmd.kind, ctx |-> ctx, out_dir |-> out_dir])

----------------------------------------------------------------------------
(* Specifications *)

\* whole runs
Init == Start(RunInputs, InitialDisks)
Next ==
    \/ ReadYaml
    \/ FromConfig
    \/ FromCli
    \/ ResolveOutDir
    \/ CreateDirAll
    \/ RegisterTemplate
    \/ Render
    \/ Write
    \/ Fail
    \/ Finish
Spec == Init /\ [][Next]_vars

\* the configuration phase alone, over every document shape
InitBuild == Start(BuildInputs, {EmptyDisk})
NextBuild ==
    \/ ReadYaml
    \/ FromConfig
    \/ FromCli
    \/ ResolveOutDir
SpecBuild == InitBuild /\ [][NextBuild]_vars

\* the same command line run several times on one disk
InitRuns == Start(RepeatInputs, {EmptyDisk})
NextRuns ==
    \/ ReadYaml
    \/ FromConfig
    \/ ResolveOutDir
    \/ CreateDirAll
    \/ RegisterTemplate
    \/ Render
    \/ Write
    \/ Fail
    \/ Finish
    \/ NewRun(RepeatInputs)
SpecRuns == InitRuns /\ [][NextRuns]_vars

----------------------------------------------------------------------------
(* Properties of the context builders *)

TcpKinds == {"tcp_echo", "tcp_worker"}

\* a context was built from a configuration file
TcpBuilt == IsSome(ctx) /\ IsSome(cfg) /\ cmd.kind \in TcpKinds
HttpBuilt == IsSome(ctx) /\ IsSome(cfg) /\ cmd.kind = "http_axum"

ModeFlags == {"is_lines", "is_fixed_size", "is_delimited", "is_length_prefixed"}
ModeFlagOf(type) == "is_" \o type
OptionModeFields ==
    {"max_line_len", "frame_size", "delim_byte", "delim_max_len",
     "lp_len_bytes", "lp_big_endian", "lp_max_len"}
ModeFieldsOf(type) ==
    CASE type = "lines" -> {"max_line_len"}
      [] type = "fixed_size" -> {"frame_size"}
      [] type = "delimited" -> {"delim_byte", "delim_max_len"}
      [] type = "length_prefixed" ->
            {"lp_len_bytes", "lp_big_endian", "lp_max_len", "lp_parse_len_code"}
Absent(json) == json.json = "null"

\* C1, as stated: exactly the flag of the input variant is true and every
\* field of the other three variants, lp_parse_len_code included, is absent
\* from the context handed to the renderer.
C1_AllOtherFieldsAbsent ==
    TcpBuilt =>
        LET rm == Unwrap(ctx).read_mode
            type == Unwrap(cfg).read_mode.type
        IN /\ {f \in ModeFlags : rm[f]} = {ModeFlagOf(type)}
           /\ \A f \in (OptionModeFields \cup {"lp_parse_len_code"}) \ ModeFieldsOf(type) :
                  Absent(Serialize(rm)[f])

\* C1, amended: exactly the flag of the input variant is true, every optional
\* field of the other three variants is absent (None), and lp_parse_len_code,
\* which is not optional, is the empty string unless the variant is
\* LengthPrefixed; so also for a WorkerPool configuration.
C1_OneModeOnly ==
    TcpBuilt =>
        LET rm == Unwrap(ctx).read_mode
            type == Unwrap(cfg).read_mode.type
        IN /\ {f \in ModeFlags : rm[f]} = {ModeFlagOf(type)}
           /\ \A f \in OptionModeFields \ ModeFieldsOf(type) : Absent(Serialize(rm)[f])
           /\ ~Absent(Serialize(rm).lp_parse_len_code)
           /\ (type # "length_prefixed" => rm.lp_parse_len_code = "")

\* a WorkerPool context in FixedSize mode has been built
C1_Witness ==
    /\ TcpBuilt
    /\ cmd.kind = "tcp_worker"
    /\ Unwrap(cfg).read_mode.type = "fixed_size"
    /\ Unwrap(ctx).read_mode.is_fixed_size
    /\ Unwrap(ctx).read_mode.frame_size = Some(MaxSize)

BufferBytes == {0, 1, 2}
Buffers == [1 .. 4 -> BufferBytes]

\* the unsigned integer held by the first n bytes of buf, in either order
RECURSIVE BigEndian(_, _)
BigEndian(buf, n) == IF n = 0 THEN 0 ELSE BigEndian(buf, n - 1) * 256 + buf[n]
RECURSIVE LittleEndian(_, _)
LittleEndian(buf, n) ==
    IF n = 0 THEN 0 ELSE LittleEndian(buf, n - 1) + buf[n] * (256 ^ (n - 1))

\* the conversion of a LengthPrefixed mode has been attempted
LpAttempted ==
    /\ IsSome(cfg)
    /\ cmd.kind \in TcpKinds
    /\ Unwrap(cfg).read_mode.type = "length_prefixed"
    /\ pc \notin {"read_yaml", "from"}

\* C2: a LengthPrefixed mode is rejected for every len_bytes outside {1,2,4}
\* and accepted for 1, 2 and 4; the accepted one carries an expression that
\* reads len_bytes bytes, as u16 for 2 and u32 for 4, decodes them in the
\* declared byte order, and for 1 byte is the same for both orders.
C2_LengthPrefixWidth ==
    LpAttempted =>
        LET mode == Unwrap(cfg).read_mode IN
        IF mode.len_bytes \in {1, 2, 4}
        THEN /\ IsSome(ctx)
             /\ LET code == Unwrap(ctx).read_mode.lp_parse_len_code
                    e == SnippetExpr(code)
                IN /\ Len(e.idx) = mode.len_bytes
                   /\ (mode.len_bytes = 2 => e.ty = "u16")
                   /\ (mode.len_bytes = 4 => e.ty = "u32")
                   /\ (mode.len_bytes \in {2, 4} =>
                          e.order = IF mode.big_endian THEN "be" ELSE "le")
                   /\ \A buf \in Buffers :
                          Decode(code, buf) =
                              IF mode.big_endian
                              THEN BigEndian(buf, mode.len_bytes)
                              ELSE LittleEndian(buf, mode.len_bytes)
                   /\ (mode.len_bytes = 1 =>
                          code = lp_parse_len_snippet(1, ~mode.big_endian).val)
        ELSE /\ ctx = None
             /\ pc = "done"
             /\ result = "panic"

\* a 4-byte little-endian prefix has been resolved
C2_Witness ==
    /\ LpAttempted
    /\ Unwrap(cfg).read_mode.len_bytes = 4
    /\ ~Unwrap(cfg).read_mode.big_endian
    /\ IsSome(ctx)
    /\ Unwrap(ctx).read_mode.lp_parse_len_code = Snippet4LE

\* the three arguments run_from_cli passes to resolve_out_dir
CliOutDir == cmd.out_dir
CfgOutDir == IF IsSome(cfg) THEN Unwrap(cfg).out_dir ELSE None
DefaultName == Unwrap(ctx).project_name

\* C3: the resolved directory is the command-line override when there is one,
\* else the override of the configuration file when there is one, else the
\* project name; it is one of the three, and resolving touches no file.
C3_OutDirPrecedence ==
    IsSome(out_dir) =>
        LET dir == Unwrap(out_dir) IN
        /\ (IsSome(CliOutDir) => dir = Unwrap(CliOutDir))
        /\ (~IsSome(CliOutDir) /\ IsSome(CfgOutDir) => dir = Unwrap(CfgOutDir))
        /\ (~IsSome(CliOutDir) /\ ~IsSome(CfgOutDir) => dir = DefaultName)
        /\ dir \in {Unwrap(o) : o \in {CliOutDir, CfgOutDir} \ {None}} \cup {DefaultName}
        /\ (pc = "generate" /\ step = 1 => fs = fs0 /\ log = << >>)

\* both overrides were given and the one of the command line was taken
C3_Witness ==
    /\ pc = "generate"
    /\ step = 1
    /\ IsSome(CliOutDir)
    /\ IsSome(CfgOutDir)
    /\ CliOutDir # CfgOutDir
    /\ out_dir = CliOutDir

OtherKinds == {"postgres", "mysql", "sqlite"}

\* C4: without a database block, or with one that is not enabled, the
\* context has db_enabled false and no url_env and no max_connections; with
\* an enabled block it has db_enabled true and the block's url_env and
\* max_connections; the block's kind changes nothing in the context.
C4_DatabaseGate ==
    HttpBuilt =>
        LET database == Unwrap(cfg).database
            c == Unwrap(ctx)
        IN /\ (~IsSome(database) =>
                  ~c.db_enabled /\ c.db_url_env = None /\ c.db_max_connections = None)
           /\ (IsSome(database) /\ ~Unwrap(database).enabled =>
                  ~c.db_enabled /\ c.db_url_env = None /\ c.db_max_connections = None)
           /\ (IsSome(database) /\ Unwrap(database).enabled =>
                  /\ c.db_enabled
                  /\ c.db_url_env = Some(Unwrap(database).url_env)
                  /\ c.db_max_connections = Unwrap(database).max_connections)
           /\ (IsSome(database) =>
                  \A k \in OtherKinds :
                      HttpAxumTemplateCtx_from(
                          [Unwrap(cfg) EXCEPT !.database =
                              Some([Unwrap(database) EXCEPT !.kind = k])]).val = c)

\* a disabled block that names a kind and a pool size was projected
C4_Witness ==
    /\ HttpBuilt
    /\ IsSome(Unwrap(cfg).database)
    /\ ~Unwrap(Unwrap(cfg).database).enabled
    /\ Unwrap(Unwrap(cfg).database).kind = "mysql"
    /\ IsSome(Unwrap(Unwrap(cfg).database).max_connections)
    /\ ~Unwrap(ctx).db_enabled

\* C5: without an infra block the three infra flags of the context are
\* false; with one, each flag equals its own input, whatever the other two.
C5_InfraIndependent ==
    HttpBuilt =>
        LET infra == Unwrap(cfg).infra
            c == Unwrap(ctx)
        IN /\ (~IsSome(infra) =>
                  ~c.docker_enabled /\ ~c.docker_compose_enabled /\ ~c.github_actions_enabled)
           /\ (IsSome(infra) =>
                  /\ c.docker_enabled = Unwrap(infra).docker
                  /\ c.docker_compose_enabled = Unwrap(infra).docker_compose
                  /\ c.github_actions_enabled = Unwrap(infra).github_actions)

\* docker_compose alone was switched on
C5_Witness ==
    /\ HttpBuilt
    /\ IsSome(Unwrap(cfg).infra)
    /\ Unwrap(cfg).infra = Some([docker |-> FALSE, docker_compose |-> TRUE,
                                 github_actions |-> FALSE])
    /\ Unwrap(ctx).docker_compose_enabled
    /\ ~Unwrap(ctx).docker_enabled

Verb == [m \in HttpMethod |->
            IF m = "GET" THEN "get"
            ELSE IF m = "POST" THEN "post"
            ELSE IF m = "PUT" THEN "put" ELSE "delete"]

\* C10: the routes of the context are the routes of the configuration, as
\* many and in the same order, each with its method as lowercase verb and its
\* path, handler and response unchanged; duplicates are kept.
C10_RoutesPreserved ==
    HttpBuilt =>
        LET routes == Unwrap(cfg).routes
            out == Unwrap(ctx).routes
        IN /\ Len(out) = Len(routes)
           /\ \A i \in 1 .. Len(routes) :
                  /\ out[i].method_fn = Verb[routes[i].method]
                  /\ out[i].path = routes[i].path
                  /\ out[i].handler_name = routes[i].handler
                  /\ out[i].response = routes[i].response

\* two routes with the same path and method were both kept
C10_Witness ==
    /\ HttpBuilt
    /\ Len(Unwrap(cfg).routes) = MaxRoutes
    /\ Unwrap(cfg).routes[1] = Unwrap(cfg).routes[2]
    /\ Unwrap(cfg).routes[1].method = "DELETE"
    /\ Len(Unwrap(ctx).routes) = MaxRoutes
    /\ Unwrap(ctx).routes[1] = Unwrap(ctx).routes[2]

----------------------------------------------------------------------------
(* Properties of whole runs *)

Dest == Unwrap(out_dir)
FilesUnder(disk, d) == {p \in DOMAIN disk.files : p[1] = d}
DestEmpty(disk, d) == \A p \in (DOMAIN disk.files) \cup disk.dirs : p[1] # d
Succeeded == pc = "done" /\ result = "ok"

\* the file holds, on both disks, the same text or no text
SameFile(d1, d2, p) ==
    /\ p \in DOMAIN d1.files <=> p \in DOMAIN d2.files
    /\ p \in DOMAIN d1.files => d1.files[p] = d2.files[p]

\* the run was given a document that cannot be read, misses project_name,
\* has a port outside u16, or asks for a length prefix of a width other
\* than 1, 2 or 4
BadDocument ==
    /\ IsSome(cmd.config)
    /\ \/ ~IsSome(file)
       \/ ~IsSome(Unwrap(file).project_name)
       \/ Unwrap(file).port \notin 0 .. 65535
       \/ /\ cmd.kind \in TcpKinds
          /\ Unwrap(file).read_mode.type = "length_prefixed"
          /\ Unwrap(file).read_mode.len_bytes \notin {1, 2, 4}
ConfigErrors == {"err:io", "err:yaml", "panic"}

\* C6: a run whose document has a configuration error never creates a
\* directory nor writes a file, never reaches the emission and ends with the
\* configuration error; a run that ended with one left the disk untouched.
C6_ConfigErrorBeforeMutation ==
    /\ BadDocument =>
          /\ fs = fs0
          /\ log = << >>
          /\ pc \in {"read_yaml", "from", "done"}
          /\ (pc = "done" => result \in ConfigErrors)
    /\ result \in ConfigErrors => pc = "done" /\ fs = fs0 /\ log = << >>

\* a run stopped on a length prefix of 3 bytes
C6_Witness ==
    /\ pc = "done"
    /\ result = "panic"
    /\ BadDocument
    /\ Unwrap(cfg).read_mode.len_bytes = 3
    /\ fs = fs0

ContainerFiles == {"Dockerfile", "docker-compose.yml"}
TcpArtifacts(d, github_actions) ==
    {<< d, "Cargo.toml" >>, << d, "src", "main.rs" >>}
        \cup (IF github_actions THEN {<< d, ".github", "workflows", "ci.yml" >>} ELSE {})

\* C7: a successful Echo or WorkerPool run into an empty destination leaves
\* there exactly Cargo.toml and src/main.rs, plus .github/workflows/ci.yml
\* exactly when github_actions is set; no run of these kinds ever writes a
\* Dockerfile or a docker-compose.yml.
C7_TcpArtifactSet ==
    cmd.kind \in TcpKinds =>
        /\ (Succeeded /\ DestEmpty(fs0, Dest) =>
               FilesUnder(fs, Dest) = TcpArtifacts(Dest, Unwrap(ctx).github_actions))
        /\ \A i \in 1 .. Len(log) :
               log[i].call.op = "write" =>
                   log[i].call.path[Len(log[i].call.path)] \notin ContainerFiles
        /\ \A p \in (DOMAIN fs.files) \cup (DOMAIN fs0.files) :
               p[Len(p)] \in ContainerFiles => SameFile(fs, fs0, p)

\* an Echo run with github_actions set filled an empty destination
C7_Witness ==
    /\ cmd.kind = "tcp_echo"
    /\ Succeeded
    /\ DestEmpty(fs0, Dest)
    /\ Unwrap(ctx).github_actions
    /\ << Dest, ".github", "workflows", "ci.yml" >> \in DOMAIN fs.files
    /\ Cardinality(FilesUnder(fs, Dest)) = 3

HttpArtifacts(d, c) ==
    {<< d, "Cargo.toml" >>, << d, "src", "main.rs" >>, << d, "src", "handlers.rs" >>}
        \cup (IF c.docker_enabled THEN {<< d, "Dockerfile" >>} ELSE {})
        \cup (IF c.docker_compose_enabled THEN {<< d, "docker-compose.yml" >>} ELSE {})
        \cup (IF c.github_actions_enabled
              THEN {<< d, ".github", "workflows", "ci.yml" >>} ELSE {})

\* C8: a successful Http run into an empty destination leaves there
\* Cargo.toml, src/main.rs and src/handlers.rs, the Dockerfile exactly when
\* docker_enabled, docker-compose.yml exactly when docker_compose_enabled and
\* .github/workflows/ci.yml exactly when github_actions_enabled, and nothing
\* else.
C8_HttpArtifactSet ==
    cmd.kind = "http_axum" /\ Succeeded /\ DestEmpty(fs0, Dest) =>
        FilesUnder(fs, Dest) = HttpArtifacts(Dest, Unwrap(ctx))

\* github_actions alone, with an enabled database: the CI workflow and no
\* container file
C8_Witness ==
    /\ cmd.kind = "http_axum"
    /\ Succeeded
    /\ DestEmpty(fs0, Dest)
    /\ Unwrap(ctx).github_actions_enabled
    /\ ~Unwrap(ctx).docker_enabled
    /\ ~Unwrap(ctx).docker_compose_enabled
    /\ Unwrap(ctx).db_enabled
    /\ << Dest, ".github", "workflows", "ci.yml" >> \in DOMAIN fs.files
    /\ << Dest, "Dockerfile" >> \notin DOMAIN fs.files
    /\ << Dest, "docker-compose.yml" >> \notin DOMAIN fs.files

\* the file each template is rendered for
ArtifactPath(name, d) ==
    CASE name = "cargo_toml" -> << d, "Cargo.toml" >>
      [] name = "main_rs" -> << d, "src", "main.rs" >>
      [] name = "handlers_rs" -> << d, "src", "handlers.rs" >>
      [] name = "dockerfile" -> << d, "Dockerfile" >>
      [] name = "docker_compose" -> << d, "docker-compose.yml" >>
      [] name = "github_actions" -> << d, ".github", "workflows", "ci.yml" >>

\* C9: a failed call is the last call of its run, which then has ended with
\* that call's error; a run that reports success made every call of its
\* function and none failed; after a failed render the artifact's file is as
\* it was before the run; every file written and every directory created
\* before the failure is still there.
C9_FailFast ==
    /\ \A i \in 1 .. Len(log) :
          ~log[i].ok =>
              /\ i = Len(log)
              /\ pc = "done"
              /\ result = "err:" \o log[i].call.op
    /\ result = "ok" =>
          /\ pc = "done"
          /\ Len(log) = Len(Plan)
          /\ \A i \in 1 .. Len(log) : log[i].ok /\ log[i].call = Plan[i]
    /\ pc = "done" /\ result = "err:render" =>
          SameFile(fs, fs0, ArtifactPath(log[Len(log)].call.name, Dest))
    /\ \A i \in 1 .. Len(log) :
          /\ log[i].ok /\ log[i].call.op = "write" =>
                /\ log[i].call.path \in DOMAIN fs.files
                /\ fs.files[log[i].call.path].ctx = ctx
          /\ log[i].ok /\ log[i].call.op = "create_dir_all" =>
                log[i].call.path \in fs.dirs

\* the render of the entry point failed after the manifest was written
C9_Witness ==
    /\ pc = "done"
    /\ result = "err:render"
    /\ log[Len(log)].call.name = "main_rs"
    /\ << Dest, "Cargo.toml" >> \in DOMAIN fs.files
    /\ fs.files[<< Dest, "Cargo.toml" >>].ctx = ctx
    /\ << Dest, "src", "main.rs" >> \notin DOMAIN fs.files

----------------------------------------------------------------------------
(* The direct-parameter form of tcp-echo, and what reaches the renderer *)

DirectForm == ~IsSome(cmd.config)

\* C11, as stated: without --config the context is in Lines mode with the
\* given max_line_len, no other flag is set and every other mode field,
\* lp_parse_len_code included, is absent; the directory is the --out-dir
\* override or else the project name, and nothing fails on the way.
C11_DirectFormAllAbsent ==
    DirectForm =>
        /\ IsSome(ctx) =>
              LET rm == Unwrap(ctx).read_mode IN
              /\ {f \in ModeFlags : rm[f]} = {"is_lines"}
              /\ rm.max_line_len = cmd.max_line_len
              /\ \A f \in (OptionModeFields \cup {"lp_parse_len_code"}) \ {"max_line_len"} :
                     Absent(Serialize(rm)[f])
        /\ IsSome(out_dir) =>
              out_dir = IF IsSome(cmd.out_dir) THEN cmd.out_dir ELSE Some(cmd.name)
        /\ result = "running"

\* C11, amended: without --config the context is in Lines mode with the
\* given max_line_len, no other flag is set, every other optional mode field
\* is absent and lp_parse_len_code is the empty string; name, port, tracing
\* and github_actions are those of the command line; the directory is the
\* --out-dir override or else the project name, and nothing fails on the way.
C11_DirectFormIsLines ==
    DirectForm =>
        /\ IsSome(ctx) =>
              LET rm == Unwrap(ctx).read_mode IN
              /\ {f \in ModeFlags : rm[f]} = {"is_lines"}
              /\ rm.max_line_len = cmd.max_line_len
              /\ \A f \in OptionModeFields \ {"max_line_len"} : Absent(Serialize(rm)[f])
              /\ rm.lp_parse_len_code = ""
              /\ Unwrap(ctx).project_name = cmd.name
              /\ Unwrap(ctx).port = cmd.port
              /\ Unwrap(ctx).tracing_enabled = cmd.tracing
              /\ Unwrap(ctx).github_actions = cmd.github_actions
        /\ IsSome(out_dir) =>
              out_dir = IF IsSome(cmd.out_dir) THEN cmd.out_dir ELSE Some(cmd.name)
        /\ result = "running"
        /\ pc # "done"

\* a direct run with a line limit and no --out-dir reached the emission
C11_Witness ==
    /\ DirectForm
    /\ pc = "generate"
    /\ cmd.max_line_len = Some(MaxSize)
    /\ cmd.out_dir = None
    /\ Unwrap(ctx).read_mode.is_lines
    /\ Unwrap(ctx).read_mode.max_line_len = Some(MaxSize)
    /\ out_dir = Some(cmd.name)

Positive(o) == IsSome(o) => Unwrap(o) > 0
ValidReadMode(rm) ==
    /\ rm.is_fixed_size => IsSome(rm.frame_size) /\ Unwrap(rm.frame_size) > 0
    /\ Positive(rm.max_line_len)
    /\ Positive(rm.delim_max_len)
    /\ Positive(rm.lp_max_len)
    /\ rm.is_length_prefixed => rm.lp_len_bytes \in {Some(1), Some(2), Some(4)}

\* C12: every context a builder returns, and so every context a template is
\* rendered with, has a port in 1..65535 and, for the stream kinds, a
\* positive frame_size in FixedSize mode, positive length limits where
\* given, and a length-prefix width of 1, 2 or 4.
C12_ContextValidated ==
    IsSome(ctx) =>
        /\ Unwrap(ctx).port \in 1 .. 65535
        /\ "read_mode" \in DOMAIN Unwrap(ctx) => ValidReadMode(Unwrap(ctx).read_mode)

----------------------------------------------------------------------------
(* The order of the calls of one emission *)

IsCall(i, op) == log[i].call.op = op
WorkflowsDir == << Dest, ".github", "workflows" >>
SrcDir == << Dest, "src" >>

\* the directory the code creates for the file
DirCreatedFor(path) == IF path[Len(path)] = "ci.yml" THEN WorkflowsDir ELSE SrcDir

\* the files the function of this run writes
PlannedFiles == {Plan[i].path : i \in {k \in 1 .. Len(Plan) : Plan[k].op = "write"}}

\* C13: every write, attempted or done, comes after a successful
\* create_dir_all in the same run that made the file's parent directory:
\* <dest>/src for Cargo.toml, src/main.rs and src/handlers.rs,
\* <dest>/.github/workflows for ci.yml; create_dir_all of a directory that
\* exists succeeds and leaves the disk as it is, and a run that succeeds
\* has written all its files whether or not the directories were there.
C13_DirectoryBeforeWrite ==
    /\ \A i \in 1 .. Len(log) :
          IsCall(i, "write") =>
              \E j \in 1 .. i - 1 :
                  /\ IsCall(j, "create_dir_all")
                  /\ log[j].ok
                  /\ log[j].call.path = DirCreatedFor(log[i].call.path)
                  /\ Parent(log[i].call.path) \in Prefixes(log[j].call.path)
    /\ \A i \in 1 .. Len(log) :
          IsCall(i, "create_dir_all") /\ log[i].ok => log[i].call.path \in fs.dirs
    /\ Running /\ Op.op = "create_dir_all" /\ Op.path \in fs.dirs =>
          /\ CanCreateDirAll(fs, Op.path)
          /\ create_dir_all(fs, Op.path) = fs
    /\ Succeeded =>
          \A p \in PlannedFiles : p \in DOMAIN fs.files /\ fs.files[p].ctx = ctx

\* a run into a destination whose src directory was already there succeeded
\* and wrote the CI workflow
C13_Witness ==
    /\ Succeeded
    /\ fs0 = StaleDisk
    /\ SrcDir \in fs0.dirs
    /\ WorkflowsDir \notin fs0.dirs
    /\ WorkflowsDir \in fs.dirs
    /\ << Dest, ".github", "workflows", "ci.yml" >> \in DOMAIN fs.files

ArtifactOrder ==
    << "cargo_toml", "main_rs", "handlers_rs", "dockerfile", "docker_compose",
       "github_actions" >>
Rank(name) == CHOOSE k \in 1 .. Len(ArtifactOrder) : ArtifactOrder[k] = name

\* the artifacts whose gate is open in the context of this run
Gated ==
    LET c == Unwrap(ctx) IN
    IF cmd.kind = "http_axum"
    THEN {"cargo_toml", "main_rs", "handlers_rs"}
            \cup (IF c.docker_enabled THEN {"dockerfile"} ELSE {})
            \cup (IF c.docker_compose_enabled THEN {"docker_compose"} ELSE {})
            \cup (IF c.github_actions_enabled THEN {"github_actions"} ELSE {})
    ELSE {"cargo_toml", "main_rs"}
            \cup (IF c.github_actions THEN {"github_actions"} ELSE {})

RenderCalls == {i \in 1 .. Len(log) : IsCall(i, "render")}
EmitCalls == {i \in 1 .. Len(log) : IsCall(i, "render") \/ IsCall(i, "write")}

\* each artifact is rendered at most once, only when its gate is open, in
\* the fixed order, and a run that succeeds has rendered every gated one
RenderedOncePerArtifact ==
    /\ \A i \in RenderCalls : log[i].call.name \in Gated
    /\ \A i, j \in RenderCalls :
          i < j => Rank(log[i].call.name) < Rank(log[j].call.name)
    /\ Succeeded => {log[i].call.name : i \in RenderCalls} = Gated

----------------------------------------------------------------------------
(* Repeated runs on the same disk *)

WrittenSoFar == {log[i].call.path : i \in {k \in 1 .. Len(log) : IsCall(k, "write") /\ log[k].ok}}

\* C15: a run removes no directory and no file; a file that was on disk when
\* the run started and that the run has not written holds its old text; and
\* a run writes only the artifacts whose gate is open in its own context, so
\* an optional artifact of an earlier run survives a run whose gate is closed.
C15_FilesOnlyGrow ==
    /\ fs0.dirs \subseteq fs.dirs
    /\ DOMAIN fs0.files \subseteq DOMAIN fs.files
    /\ \A p \in DOMAIN fs0.files : p \notin WrittenSoFar => fs.files[p] = fs0.files[p]
    /\ \A i \in 1 .. Len(log) :
          IsCall(i, "write") =>
              log[i].call.path \in {ArtifactPath(name, Dest) : name \in Gated}

\* a second run with docker off ended with the Dockerfile of the first run,
\* rendered from the first run's context, still in place
C15_Witness ==
    /\ runs = 2
    /\ Succeeded
    /\ cmd.kind = "http_axum"
    /\ Unwrap(prev).kind = "http_axum"
    /\ Unwrap(prev).out_dir = out_dir
    /\ Unwrap(Unwrap(prev).ctx).docker_enabled
    /\ ~Unwrap(ctx).docker_enabled
    /\ << Dest, "Dockerfile" >> \in DOMAIN fs.files
    /\ fs.files[<< Dest, "Dockerfile" >>].ctx = Unwrap(prev).ctx
    /\ fs.files[<< Dest, "Cargo.toml" >>].ctx = ctx

\* this run repeats the one before: same kind, same context, same directory
RepeatsPrevious ==
    /\ IsSome(prev)
    /\ IsSome(ctx)
    /\ IsSome(out_dir)
    /\ Unwrap(prev).kind = cmd.kind
    /\ Unwrap(prev).ctx = ctx
    /\ Unwrap(prev).out_dir = out_dir

\* the call the run is about to make cannot be refused by what is on disk or
\* in the registry
CallPossible ==
    CASE Op.op = "create_dir_all" -> CanCreateDirAll(fs, Op.path)
      [] Op.op = "register_template_string" -> TRUE
      [] Op.op = "render" -> Op.name \in DOMAIN hbs
      [] Op.op = "write" -> IsSome(rendered) /\ CanWrite(fs, Op.path)

\* C16: when a run repeats the successful run before it, nothing the first
\* run left on disk makes a call of the second fail, every file the second
\* writes holds exactly the text the first left there, and when the second
\* succeeds the disk, files and texts, is what it was after the first.
C16_Idempotent ==
    RepeatsPrevious =>
        /\ Running => CallPossible
        /\ \A p \in WrittenSoFar :
              /\ p \in DOMAIN fs0.files
              /\ fs.files[p] = fs0.files[p]
              /\ fs.files[p].ctx = ctx
        /\ Succeeded => fs = fs0 /\ PlannedFiles \subseteq DOMAIN fs.files

\* an Http command with the three gates open was run twice with success
C16_Witness ==
    /\ RepeatsPrevious
    /\ runs = 2
    /\ Succeeded
    /\ cmd.kind = "http_axum"
    /\ Cardinality(PlannedFiles) = 6
    /\ WrittenSoFar = PlannedFiles
    /\ fs = fs0

====
